---- MODULE Spec2Model ----
(***************************************************************************)
(* Model of the packet layer of feetech-servo-rs                           *)
(* (src/src/packet_handler.rs): construction and checksumming of           *)
(* instruction packets, their transmission over the serial port, and the   *)
(* reading and validation of the status packet that comes back.            *)
(*                                                                         *)
(* One PacketHandler owns one port.  A round trip is followed call by      *)
(* call: every call on the port (write, read_exact) is one step, and the   *)
(* port answers each call with bytes or with a fault of its own choosing.  *)
(***************************************************************************)
EXTENDS Integers, Sequences, FiniteSets, TLC

\* ---------------------------------------------------------------- bounds
\* Largest number of parameter bytes a device puts in a status packet.
MaxParams == 2
\* Largest number of round trips followed on one handler.
MaxTrips == 2

\* ------------------------------------------------------- program constants
BroadcastId == 254
MaxPacketLength == 250
HeaderByte == 255
PingInstruction == 1
PingLength == 2

\* ------------------------------------------------------------- inputs
\* ids handed to ping / InstructionPacket::new (an addressed device, broadcast)
MotorIds == {1, BroadcastId}
\* length arguments handed to InstructionPacket::new (u8)
PacketLengths == {2, 246, 247, 255}
\* instruction bytes handed to InstructionPacket::new
Instructions == {1, 3}
\* bytes a device sends as parameters, ids and error flags of a status packet
ParamBytes == {0, 250, 251}
DeviceIds == {1}
ErrorBytes == {0}
\* header byte pairs that are not the <<0xFF, 0xFF>> sentinel
BadHeaders == {<<255, 0>>, <<0, 255>>}
\* the callers that issue round trips on the one handler
Callers == {"a", "b"}

\* ----------------------------------------------------------- compute_checksum
\* the sum of the bytes of s (halved, to keep the evaluation shallow)
RECURSIVE SumSeq(_)
SumSeq(s) ==
    IF s = <<>> THEN 0
    ELSE IF Len(s) = 1 THEN s[1]
    ELSE LET h == Len(s) \div 2
         IN  SumSeq(SubSeq(s, 1, h)) + SumSeq(SubSeq(s, h + 1, Len(s)))

\* the same sum with the length byte left out
compute_checksum_without_length(id, length, instruction, parameters) ==
    LET checksum == (id + instruction + SumSeq(parameters)) % 65536
    IN  255 - (checksum % 256)

\* u16 accumulator, then the complement of its low 8 bits
compute_checksum(id, length, instruction, parameters) ==
    LET checksum == (id + length + instruction + SumSeq(parameters)) % 65536
    IN  255 - (checksum % 256)

\* ----------------------------------------------------------- InstructionPacket
InstructionPacket_new(id, length, instruction) ==
    [id |-> id, length |-> length, instruction |-> instruction,
     parameters |-> <<>>,
     checksum |-> compute_checksum(id, length, instruction, <<>>)]

\* the length field alone, without the four bytes it does not count
get_total_packet_length_field_only(p) == p.length

get_total_packet_length(p) == p.length + 4

\* the same bytes without the trailing checksum
as_bytes_without_checksum(p) ==
    <<HeaderByte, HeaderByte, p.id, p.length, p.instruction>> \o p.parameters

as_bytes(p) ==
    <<HeaderByte, HeaderByte, p.id, p.length, p.instruction>>
        \o p.parameters \o <<p.checksum>>

\* ----------------------------------------------------------- the port
WriteResults == {"Ok", "Err", "ErrBusy"}
ReadResults == {"Ok", "TimedOut", "Other"}

\* what a device puts on the line: header, id, length, error, params, checksum
StatusBytes(h, id, length, error, ps, ck) ==
    h \o <<id, length, error>> \o ps \o <<ck>>

ParamSeqs == UNION {[1..n -> ParamBytes] : n \in 0..MaxParams}

\* well-formed status packets, the same with a bad header, and the same with
\* the checksum byte off by one
Streams ==
    UNION {
      LET good == compute_checksum(id, Len(ps) + 2, e, ps) IN
      {StatusBytes(<<HeaderByte, HeaderByte>>, id, Len(ps) + 2, e, ps, good),
       StatusBytes(<<HeaderByte, HeaderByte>>, id, Len(ps) + 2, e, ps, (good + 1) % 256)}
      \cup {StatusBytes(h, id, Len(ps) + 2, e, ps, good) : h \in BadHeaders}
      : id \in DeviceIds, e \in ErrorBytes, ps \in ParamSeqs}

\* ----------------------------------------------------------- results
NoPacket == [id |-> 0, length |-> 0, instruction |-> 0,
             parameters |-> <<>>, checksum |-> 0]
NoStatus == [id |-> 0, length |-> 0, error |-> 0, params |-> <<>>, checksum |-> 0]

RxResult(tag) == [tag |-> tag, some |-> FALSE, packet |-> NoStatus]
RxSuccessSome(sp) == [tag |-> "Success", some |-> TRUE, packet |-> sp]
RxSuccessNone == RxResult("Success")
NoResult == RxResult("None")

VARIABLES
    pc,         \* position of the caller inside the round trip
    packet,     \* the InstructionPacket of the round trip
    txResult,   \* what tx_packet returned
    writeLog,   \* byte sequences handed to port.write in this round trip
    writeFault, \* how port.write answered
    stream,     \* bytes the port holds for reading
    consumed,   \* how many of them were read
    readLog,    \* sizes of the buffers handed to port.read_exact
    readFault,  \* the fault of the read that failed, if one did
    header,     \* rx_packet's locals
    meta,
    params,
    checksum,
    result,     \* what the round trip returned
    panic,      \* message of the panic that ended the process
    caller,     \* who holds the handler (&mut self) for the round trip
    trips,      \* round trips begun on the handler
    oplog,      \* what the handler did, in order, over all round trips
    cs          \* one run of compute_checksum, followed statement by statement

vars == <<pc, packet, txResult, writeLog, writeFault, stream, consumed,
          readLog, readFault, header, meta, params, checksum, result, panic,
          caller, trips, oplog, cs>>

rxLocals == <<header, meta, params, checksum>>

\* no run of compute_checksum is being followed
CsIdle == [pc |-> "idle", id |-> 0, length |-> 0, instruction |-> 0,
           parameters |-> <<>>, i |-> 0, acc |-> 0, overflow |-> FALSE,
           out |-> 0, claimed |-> 0, pass |-> FALSE]

\* the handler's operations ops, appended to the log for round trip n of c
Logged(n, c, ops) ==
    oplog \o [k \in 1..Len(ops) |-> [trip |-> n, caller |-> c, op |-> ops[k]]]

\* the handler right after PacketHandler::new
Boot ==
    /\ pc = "Idle"
    /\ packet = NoPacket
    /\ txResult = "None"
    /\ writeLog = <<>>
    /\ writeFault = "None"
    /\ stream = <<>>
    /\ consumed = 0
    /\ readLog = <<>>
    /\ readFault = "None"
    /\ header = <<0, 0>>
    /\ meta = <<0, 0, 0>>
    /\ params = <<>>
    /\ checksum = 0
    /\ result = NoResult
    /\ panic = "None"
    /\ caller = "None"
    /\ trips = 0
    /\ oplog = <<>>

Init == Boot /\ cs = CsIdle

\* the same entry, were the handler shared (&self) instead of held exclusively
Begin_shared(p) ==
    /\ pc # "Panicked"
    /\ trips < MaxTrips
    /\ pc' = "Transmitting"
    /\ packet' = p
    /\ txResult' = "None"
    /\ writeLog' = <<>>
    /\ writeFault' = "None"
    /\ stream' = <<>>
    /\ consumed' = 0
    /\ readLog' = <<>>
    /\ readFault' = "None"
    /\ header' = <<0, 0>>
    /\ meta' = <<0, 0, 0>>
    /\ params' = <<>>
    /\ checksum' = 0
    /\ result' = NoResult
    /\ panic' = "None"
    /\ trips' = trips + 1
    /\ \E c \in Callers :
          /\ caller' = c
          /\ oplog' = Logged(trips + 1, c, <<"call">>)
    /\ UNCHANGED cs

\* a caller enters tx_rx_packet with a freshly built packet
Begin(p) ==
    /\ pc = "Idle"
    /\ trips < MaxTrips
    /\ pc' = "Transmitting"
    /\ packet' = p
    /\ txResult' = "None"
    /\ writeLog' = <<>>
    /\ writeFault' = "None"
    /\ stream' = <<>>
    /\ consumed' = 0
    /\ readLog' = <<>>
    /\ readFault' = "None"
    /\ header' = <<0, 0>>
    /\ meta' = <<0, 0, 0>>
    /\ params' = <<>>
    /\ checksum' = 0
    /\ result' = NoResult
    /\ panic' = "None"
    /\ trips' = trips + 1
    /\ \E c \in Callers :
          /\ caller' = c
          /\ oplog' = Logged(trips + 1, c, <<"call">>)
    /\ UNCHANGED cs

ping(motor_id) ==
    Begin(InstructionPacket_new(motor_id, PingLength, PingInstruction))

\* any other in-crate caller: InstructionPacket::new, then tx_rx_packet
send(id, length, instruction) ==
    Begin(InstructionPacket_new(id, length, instruction))

\* ----------------------------------------------------------- tx_packet
\* tx_packet dropping what port.write answered
tx_packet_ignores_write_error(p, w) ==
    IF get_total_packet_length(p) > MaxPacketLength THEN "TxError" ELSE "Success"

\* TxResult of tx_packet when port.write answers w
tx_packet(p, w) ==
    IF get_total_packet_length(p) > MaxPacketLength THEN "TxError"
    ELSE IF w = "Ok" THEN "Success" ELSE "TxFail"

\* tx_packet calls port.write only past the length check
tx_writes(p) == ~(get_total_packet_length(p) > MaxPacketLength)

\* tx_rx_packet without its test for the broadcast id
tx_rx_branch_always_reads(tx, id) ==
    IF tx # "Success" THEN "RxFail" ELSE "rx_packet"

\* tx_rx_packet without its test of tx_packet's result
tx_rx_branch_ignores_result(tx, id) ==
    IF id = BroadcastId THEN "SuccessNone" ELSE "rx_packet"

\* what tx_rx_packet does with tx_packet's result: return RxFail, return
\* Success(None) for the broadcast id, or go on to rx_packet
tx_rx_branch(tx, id) ==
    IF tx # "Success" THEN "RxFail"
    ELSE IF id = BroadcastId THEN "SuccessNone"
    ELSE "rx_packet"

tx_rx_packet ==
    /\ pc = "Transmitting"
    /\ \E w \in WriteResults, s \in Streams :
        LET tx == tx_packet(packet, w)
            br == tx_rx_branch(tx, packet.id)
        IN  /\ txResult' = tx
            /\ writeLog' = IF tx_writes(packet)
                           THEN Append(writeLog, as_bytes(packet)) ELSE writeLog
            /\ writeFault' = IF tx_writes(packet) THEN w ELSE "None"
            /\ stream' = IF tx_writes(packet) /\ w = "Ok" THEN s ELSE <<>>
            /\ result' = CASE br = "RxFail" -> RxResult("RxFail")
                           [] br = "SuccessNone" -> RxSuccessNone
                           [] OTHER -> result
            /\ pc' = IF br = "rx_packet" THEN "AwaitingHeader" ELSE "Idle"
            /\ oplog' = Logged(trips, caller,
                            (IF tx_writes(packet) THEN <<"write">> ELSE <<>>)
                            \o (IF br = "rx_packet" THEN <<>> ELSE <<"return">>))
    /\ UNCHANGED <<packet, consumed, readLog, readFault, rxLocals, panic,
                   caller, trips, cs>>

\* ----------------------------------------------------------- rx_packet
\* port.read_exact on a buffer of n bytes can answer r: Ok needs n bytes on
\* the line, and an empty buffer is filled without touching the line
CanAnswer(n, r) ==
    /\ r = "Ok" => Len(stream) - consumed >= n
    /\ n = 0 => r = "Ok"

Take(n) == SubSeq(stream, consumed + 1, consumed + n)

\* length of the buffer rx_packet hands to read_exact for the parameters:
\* Vec::with_capacity(param_len) is an empty vector
params_buffer_len(param_len) == 0

\* .expect(msg) on a failed read, or a failed assert!
Abort(msg, r) ==
    /\ pc' = "Panicked"
    /\ panic' = msg
    /\ readFault' = r

\* what one read step of rx_packet adds to the log: the read, the check that
\* follows it when the read succeeded, and the panic when the step aborts
ReadOps(read, r, checks, ok) ==
    <<read>> \o (IF r = "Ok" THEN checks ELSE <<>>)
             \o (IF r = "Ok" /\ ok THEN <<>> ELSE <<"panic">>)

rx_read_header ==
    /\ pc = "AwaitingHeader"
    /\ \E r \in ReadResults :
        /\ CanAnswer(2, r)
        /\ readLog' = Append(readLog, 2)
        /\ oplog' = Logged(trips, caller,
                        ReadOps("read_header", r, <<"check_header">>,
                                Take(2) = <<HeaderByte, HeaderByte>>))
        /\ IF r # "Ok"
           THEN /\ Abort("reading header failed", r)
                /\ UNCHANGED <<consumed, header>>
           ELSE /\ header' = Take(2)
                /\ consumed' = consumed + 2
                /\ IF Take(2) = <<HeaderByte, HeaderByte>>
                   THEN /\ pc' = "AwaitingMeta"
                        /\ UNCHANGED <<panic, readFault>>
                   ELSE Abort("assertion failed: header == [0xFF, 0xFF]", "None")
    /\ UNCHANGED <<packet, txResult, writeLog, writeFault, stream,
                   meta, params, checksum, result,
                   caller, trips, cs>>

rx_read_packet ==
    /\ pc = "AwaitingMeta"
    /\ \E r \in ReadResults :
        /\ CanAnswer(3, r)
        /\ readLog' = Append(readLog, 3)
        /\ oplog' = Logged(trips, caller, ReadOps("read_packet", r, <<>>, TRUE))
        /\ IF r # "Ok"
           THEN /\ Abort("reading packet contents failed", r)
                /\ UNCHANGED <<consumed, meta>>
           ELSE /\ meta' = Take(3)
                /\ consumed' = consumed + 3
                /\ pc' = "AwaitingParameters"
                /\ UNCHANGED <<panic, readFault>>
    /\ UNCHANGED <<packet, txResult, writeLog, writeFault, stream,
                   header, params, checksum, result,
                   caller, trips, cs>>

rx_read_params ==
    /\ pc = "AwaitingParameters"
    /\ \E r \in ReadResults :
        LET n == params_buffer_len(meta[2]) IN
        /\ CanAnswer(n, r)
        /\ readLog' = Append(readLog, n)
        /\ oplog' = Logged(trips, caller, ReadOps("read_params", r, <<>>, TRUE))
        /\ IF r # "Ok"
           THEN /\ Abort("reading param contents failed", r)
                /\ UNCHANGED <<consumed, params>>
           ELSE /\ params' = Take(n)
                /\ consumed' = consumed + n
                /\ pc' = "AwaitingChecksum"
                /\ UNCHANGED <<panic, readFault>>
    /\ UNCHANGED <<packet, txResult, writeLog, writeFault, stream,
                   header, meta, checksum, result,
                   caller, trips, cs>>

rx_read_checksum ==
    /\ pc = "AwaitingChecksum"
    /\ \E r \in ReadResults :
        /\ CanAnswer(1, r)
        /\ readLog' = Append(readLog, 1)
        /\ oplog' = Logged(trips, caller, ReadOps("read_checksum", r, <<>>, TRUE))
        /\ IF r # "Ok"
           THEN /\ Abort("reading checksum contents failed", r)
                /\ UNCHANGED <<consumed, checksum>>
           ELSE /\ checksum' = Take(1)[1]
                /\ consumed' = consumed + 1
                /\ pc' = "Validating"
                /\ UNCHANGED <<panic, readFault>>
    /\ UNCHANGED <<packet, txResult, writeLog, writeFault, stream,
                   header, meta, params, result,
                   caller, trips, cs>>

\* ----------------------------------------------------------- StatusPacket::new
\* StatusPacket::new with the header assert alone
StatusPacket_accepts_header_only(h, id, length, error, ps, ck) ==
    h = <<HeaderByte, HeaderByte>>

\* the two assert!s of StatusPacket::new
StatusPacket_accepts(h, id, length, error, ps, ck) ==
    /\ h = <<HeaderByte, HeaderByte>>
    /\ ck = compute_checksum(id, length, error, ps)

StatusPacket_new ==
    /\ pc = "Validating"
    /\ IF StatusPacket_accepts(header, meta[1], meta[2], meta[3], params, checksum)
       THEN /\ result' = RxSuccessSome([id |-> meta[1], length |-> meta[2],
                                        error |-> meta[3], params |-> params,
                                        checksum |-> checksum])
            /\ pc' = "Idle"
            /\ UNCHANGED <<panic, readFault>>
       ELSE /\ Abort("assertion failed: checksum == computed_checksum", "None")
            /\ UNCHANGED result
    /\ oplog' = Logged(trips, caller,
                    <<"check_header">>
                    \o (IF header = <<HeaderByte, HeaderByte>>
                        THEN <<"check_checksum">> ELSE <<>>)
                    \o (IF StatusPacket_accepts(header, meta[1], meta[2], meta[3],
                                                params, checksum)
                        THEN <<"return">> ELSE <<"panic">>))
    /\ UNCHANGED <<packet, txResult, writeLog, writeFault, stream, consumed,
                   readLog, rxLocals, caller, trips, cs>>

\* ----------------------------------------------------------- specification
Next ==
    \/ \E motor_id \in MotorIds : ping(motor_id)
    \/ \E id \in MotorIds, length \in PacketLengths, instruction \in Instructions :
          send(id, length, instruction)
    \/ tx_rx_packet
    \/ rx_read_header
    \/ rx_read_packet
    \/ rx_read_params
    \/ rx_read_checksum
    \/ StatusPacket_new

Spec == Init /\ [][Next]_vars

\* Every call of a round trip is a blocking call that comes back (with bytes,
\* a fault or the port's read deadline), and the code between two calls runs
\* to the next call: a round trip that can take its next step takes it.
FairSpec ==
    /\ Spec
    /\ WF_vars(tx_rx_packet)
    /\ WF_vars(rx_read_header)
    /\ WF_vars(rx_read_packet)
    /\ WF_vars(rx_read_params)
    /\ WF_vars(rx_read_checksum)
    /\ WF_vars(StatusPacket_new)

\* ----------------------------------------------------------- compute_checksum, stepwise
\* the most parameter bytes a packet of at most 250 bytes carries
MaxInstructionParams == MaxPacketLength - 6

\* arguments handed to compute_checksum
CkBytes == {0, 1, 255}
CkParamBytes == {1, 255}
CkParamCounts == {0, 1, 2, MaxInstructionParams}
CkParams == {[k \in 1..n |-> b] : n \in CkParamCounts, b \in CkParamBytes}
\* claimed checksum bytes handed to StatusPacket::new next to the fields
CkClaims(out) == {out, (out + 1) % 256, 255 - out}

rtVars == <<pc, packet, txResult, writeLog, writeFault, stream, consumed,
            readLog, readFault, header, meta, params, checksum, result, panic,
            caller, trips, oplog>>

\* += on an accumulator of 8 bits
u8_add(a, b) == [value |-> (a + b) % 256, overflow |-> a + b > 255]

\* += on the u16 accumulator: the sum, and whether it left the 16 bits
u16_add(a, b) == [value |-> (a + b) % 65536, overflow |-> a + b > 65535]

CkInit ==
    /\ Boot
    /\ \E id \in CkBytes, length \in CkBytes, instruction \in CkBytes,
          parameters \in CkParams :
          cs = [CsIdle EXCEPT !.pc = "id", !.id = id, !.length = length,
                              !.instruction = instruction,
                              !.parameters = parameters]

\* checksum += b, then on to the next statement
CsAdd(b, next, i) ==
    LET s == u16_add(cs.acc, b) IN
    cs' = [cs EXCEPT !.acc = s.value,
                     !.overflow = cs.overflow \/ s.overflow,
                     !.pc = next, !.i = i]

cs_add_id ==
    /\ cs.pc = "id"
    /\ CsAdd(cs.id, "length", 0)
    /\ UNCHANGED rtVars

cs_add_length ==
    /\ cs.pc = "length"
    /\ CsAdd(cs.length, "instruction", 0)
    /\ UNCHANGED rtVars

cs_add_instruction ==
    /\ cs.pc = "instruction"
    /\ CsAdd(cs.instruction, "params", 0)
    /\ UNCHANGED rtVars

cs_add_param ==
    /\ cs.pc = "params"
    /\ cs.i < Len(cs.parameters)
    /\ CsAdd(cs.parameters[cs.i + 1], "params", cs.i + 1)
    /\ UNCHANGED rtVars

\* (!checksum & 0xff) as u8
cs_return ==
    /\ cs.pc = "params"
    /\ cs.i = Len(cs.parameters)
    /\ cs' = [cs EXCEPT !.out = 255 - (cs.acc % 256), !.pc = "done"]
    /\ UNCHANGED rtVars

\* StatusPacket::new on the same fields and a claimed checksum byte
cs_verify ==
    /\ cs.pc = "done"
    /\ \E claimed \in CkClaims(cs.out) :
          cs' = [cs EXCEPT !.claimed = claimed,
                           !.pass = StatusPacket_accepts(
                                        <<HeaderByte, HeaderByte>>, cs.id,
                                        cs.length, cs.instruction,
                                        cs.parameters, claimed),
                           !.pc = "verified"]
    /\ UNCHANGED rtVars

CkNext ==
    \/ cs_add_id
    \/ cs_add_length
    \/ cs_add_instruction
    \/ cs_add_param
    \/ cs_return
    \/ cs_verify

ChecksumSpec == CkInit /\ [][CkNext]_vars

\* ----------------------------------------------------------- vocabulary
\* the round trip returned a value to its caller
Returned == pc = "Idle" /\ result # NoResult
\* the round trip is over: it returned, or the process panicked
Ended == Returned \/ pc = "Panicked"
\* the round trip goes to one device, which answers
Addressed == packet # NoPacket /\ packet.id # BroadcastId
\* the packet of the round trip is longer than the protocol allows
Oversize == packet # NoPacket /\ packet.length + 4 > 250
\* port.write was called and failed
WriteFailed == writeFault \in {"Err", "ErrBusy"}

\* the line holds a status packet that is valid but for its checksum byte
ChecksumFlipped(s) ==
    /\ Len(s) >= 6
    /\ SubSeq(s, 1, 2) = <<255, 255>>
    /\ Len(s) = s[4] + 4
    /\ s[Len(s)] # 255 - ((s[3] + s[4] + s[5] + SumSeq(SubSeq(s, 6, Len(s) - 1))) % 256)

\* ----------------------------------------------------------- C1
\* C1 (as stated): a round trip to the broadcast id 254 that has returned,
\* returned Success(None), and it made no read on the port, whatever the port
\* did.
C1_BroadcastAlwaysSuccessNone ==
    (Returned /\ packet.id = BroadcastId) =>
        (result = RxSuccessNone /\ readLog = <<>>)

\* C1 (amended): a round trip to the broadcast id 254 never reads from the
\* port, and it returns Success(None) exactly when its packet is not oversize
\* and the write succeeded; otherwise it returns RxFail.
C1_BroadcastNoReads ==
    packet.id = BroadcastId =>
        /\ readLog = <<>>
        /\ Returned =>
             IF packet.length + 4 <= 250 /\ writeFault = "Ok"
             THEN result = RxSuccessNone
             ELSE result = RxResult("RxFail")

C1_Witness ==
    /\ Returned
    /\ packet.id = BroadcastId
    /\ writeFault = "Ok"
    /\ result = RxSuccessNone
    /\ readLog = <<>>

\* ----------------------------------------------------------- C2
\* C2: no round trip ends the process: whatever bytes and faults the port
\* delivers, no panic is reached.
C2_NeverPanics == pc # "Panicked"

\* ----------------------------------------------------------- C3
\* C3: when the first two bytes read in a round trip to an addressed device
\* are not 0xFF,0xFF, the round trip ends by returning RxCorrupt.
C3_BadHeaderIsCorrupt ==
    (Addressed /\ Ended /\ consumed >= 2 /\ SubSeq(stream, 1, 2) # <<255, 255>>) =>
        (Returned /\ result = RxResult("RxCorrupt"))

\* ----------------------------------------------------------- C4
\* C4: when the line holds an otherwise valid status packet whose checksum
\* byte differs from the checksum of its id, length, error and parameters,
\* and no read faults, the round trip ends by returning RxCorrupt.
C4_BadChecksumIsCorrupt ==
    (Addressed /\ Ended /\ writeFault = "Ok" /\ readFault = "None"
        /\ ChecksumFlipped(stream)) =>
        (Returned /\ result = RxResult("RxCorrupt"))

\* ----------------------------------------------------------- C5
\* C5: a read that times out, at any read stage, ends the round trip with
\* RxTimeout, and a read that fails otherwise ends it with RxFail.
C5_ReadFaultsAreOutcomes ==
    (Addressed /\ Ended) =>
        /\ readFault = "TimedOut" => (Returned /\ result = RxResult("RxTimeout"))
        /\ readFault = "Other" => (Returned /\ result = RxResult("RxFail"))

\* ----------------------------------------------------------- C6
\* C6: when port.write fails, the round trip returns RxFail, or PortBusy when
\* the failure is a contention condition, and makes no read.
C6_WriteFailureOutcome ==
    (Ended /\ WriteFailed) =>
        /\ Returned
        /\ readLog = <<>>
        /\ result = IF writeFault = "ErrBusy"
                    THEN RxResult("PortBusy") ELSE RxResult("RxFail")

\* ----------------------------------------------------------- C7
\* C7: a round trip whose packet has length + 4 > 250 makes no write and no
\* read on the port, and what it returns is a failure.
C7_OversizeTouchesNothing ==
    Oversize =>
        /\ writeLog = <<>>
        /\ readLog = <<>>
        /\ Returned => result.tag # "Success"

C7_Witness ==
    /\ Returned
    /\ Oversize
    /\ txResult = "TxError"
    /\ writeLog = <<>>

\* ----------------------------------------------------------- C8
\* C8: transmitting a packet fails as oversize exactly when the packet has
\* more than 244 parameter bytes.
C8_OversizeIffManyParams ==
    txResult # "None" =>
        (txResult = "TxError" <=> Len(packet.parameters) > 244)

\* ----------------------------------------------------------- C9
\* C9: when a status packet has been read and is about to be validated, the
\* reads were of exactly 2, 3, length - 2 and 1 bytes, length + 4 bytes were
\* consumed, and the byte taken as the checksum is the last byte of the packet.
C9_ReadSizes ==
    pc = "Validating" =>
        /\ readLog = <<2, 3, meta[2] - 2, 1>>
        /\ consumed = meta[2] + 4
        /\ checksum = stream[meta[2] + 4]

\* ----------------------------------------------------------- C10
\* C10: every status packet returned inside Success(Some(..)) has as many
\* parameters as its length field minus 2.
C10_ParamsMatchLength ==
    (Returned /\ result.some) =>
        Len(result.packet.params) = result.packet.length - 2

\* ----------------------------------------------------------- vocabulary (2)
\* the checksum of the wire format: the complement of the low 8 bits of
\* id + length + opcode or error + the parameters
WireChecksum(id, length, e, ps) == 255 - ((id + length + e + SumSeq(ps)) % 256)

\* the line holds exactly one well-formed status packet
WellFormed(s) ==
    /\ Len(s) >= 6
    /\ SubSeq(s, 1, 2) = <<255, 255>>
    /\ Len(s) = s[4] + 4
    /\ s[Len(s)] = WireChecksum(s[3], s[4], s[5], SubSeq(s, 6, Len(s) - 1))

IsPrefix(a, b) == Len(a) <= Len(b) /\ a = SubSeq(b, 1, Len(a))

\* what the handler did on the port and on the bytes in the current round
\* trip, in order, without the call and its way out (return or panic)
CurSteps ==
    LET InTrip(e) == e.trip = trips /\ e.op \notin {"call", "return", "panic"}
        cur == SelectSeq(oplog, InTrip)
    IN  [k \in 1..Len(cur) |-> cur[k].op]

\* the order in which all validation comes after the last read
ClaimedOrder ==
    <<"write", "read_header", "read_packet", "read_params", "read_checksum",
      "check_header", "check_checksum">>

\* the order with the header checked right after it is read, and again with
\* the checksum
CodeOrder ==
    <<"write", "read_header", "check_header", "read_packet", "read_params",
      "read_checksum", "check_header", "check_checksum">>

\* ----------------------------------------------------------- C11
\* C11: every status packet returned inside Success(Some(..)) was read from a
\* line whose first two bytes are 0xFF,0xFF, and its checksum is the wire
\* checksum of its own id, length, error and parameters.
C11_ReturnedPacketIsValid ==
    (Returned /\ result.some) =>
        /\ SubSeq(stream, 1, 2) = <<255, 255>>
        /\ result.packet.checksum =
              WireChecksum(result.packet.id, result.packet.length,
                           result.packet.error, result.packet.params)

C11_Witness ==
    /\ Returned
    /\ result.some
    /\ result.packet.length > 2
    /\ header = <<255, 255>>

\* ----------------------------------------------------------- C12
\* C12: whatever callers issue round trips on the handler, the port sees the
\* round trips one after the other in the order of the calls: everything of
\* round trip k is logged before anything of round trip k+1, a round trip
\* belongs to one caller and writes at most once, and round trip k+1 is called
\* only after round trip k returned.
C12_RoundTripsInCallOrder ==
    /\ \A i, j \in 1..Len(oplog) :
          i < j =>
            /\ oplog[i].trip <= oplog[j].trip
            /\ oplog[i].trip = oplog[j].trip =>
                 /\ oplog[i].caller = oplog[j].caller
                 /\ ~(oplog[i].op = "write" /\ oplog[j].op = "write")
    /\ \A j \in 1..Len(oplog) :
          (oplog[j].trip > 1 /\ oplog[j].op \in {"call", "write"}) =>
             \E i \in 1..(j - 1) :
                 oplog[i].trip = oplog[j].trip - 1 /\ oplog[i].op = "return"

C12_Witness ==
    \E i, j \in 1..Len(oplog) :
        /\ i < j
        /\ oplog[i].op = "read_checksum"
        /\ oplog[j].op = "write"
        /\ oplog[i].caller # oplog[j].caller

\* ----------------------------------------------------------- C13
\* C13: every round trip that is started eventually ends with the handler
\* idle again, whatever its outcome.
C13_ReturnsToIdle == (pc = "Transmitting") ~> (pc = "Idle")

\* ----------------------------------------------------------- C14
\* C14: the bytes handed to port.write are exactly 0xFF, 0xFF, id, length,
\* opcode, the parameters in order and the wire checksum, in one write; for
\* ping of device 1 they are FF FF 01 02 01 FB.
C14_WrittenBytes ==
    writeLog # <<>> =>
        /\ writeLog = << <<255, 255, packet.id, packet.length, packet.instruction>>
                            \o packet.parameters
                            \o <<WireChecksum(packet.id, packet.length,
                                              packet.instruction, packet.parameters)>> >>
        /\ (packet.id = 1 /\ packet.length = 2 /\ packet.instruction = 1) =>
              writeLog[1] = <<255, 255, 1, 2, 1, 251>>

C14_Witness == writeLog = << <<255, 255, 1, 2, 1, 251>> >>

\* ----------------------------------------------------------- C15
\* C15: for bytes id, length, opcode or error and at most 244 parameter
\* bytes, the u16 accumulator of compute_checksum never leaves its 16 bits,
\* and compute_checksum returns 255 - ((id + length + opcode + parameters)
\* mod 256).
C15_ChecksumValue ==
    /\ ~cs.overflow
    /\ cs.acc <= 65535
    /\ cs.pc \in {"done", "verified"} =>
          /\ cs.out = 255 - ((cs.id + cs.length + cs.instruction
                              + SumSeq(cs.parameters)) % 256)
          /\ cs.out = compute_checksum(cs.id, cs.length, cs.instruction,
                                       cs.parameters)

C15_Witness ==
    /\ cs.pc = "done"
    /\ Len(cs.parameters) = 244
    /\ cs.acc > 60000

\* ----------------------------------------------------------- C16
\* C16: the fields with the checksum that compute_checksum returned for them
\* pass the check of StatusPacket::new, and with any other checksum byte they
\* do not.
C16_VerifyIffComputed ==
    cs.pc = "verified" => (cs.pass <=> cs.claimed = cs.out)

C16_Witness ==
    /\ cs.pc = "verified"
    /\ cs.pass
    /\ cs.claimed = cs.out
    /\ Len(cs.parameters) > 0

\* ----------------------------------------------------------- C17
\* C17: every instruction packet built has length = number of parameters + 2,
\* so that it serializes to length + 4 bytes, as get_total_packet_length says.
C17_LengthCountsParams ==
    packet # NoPacket =>
        /\ packet.length = Len(packet.parameters) + 2
        /\ Len(as_bytes(packet)) = get_total_packet_length(packet)

\* ----------------------------------------------------------- C18
\* C18 (as stated): within a round trip the handler writes, then reads the
\* header, the meta bytes, the parameters and the checksum, and only then
\* validates header and checksum; no read comes before a successful write.
C18_ValidationAfterAllReads ==
    /\ IsPrefix(CurSteps, ClaimedOrder)
    /\ Len(CurSteps) >= 2 => writeFault = "Ok"

\* C18 (amended): within a round trip the handler writes, reads the header,
\* checks the header at once, then reads the meta bytes, the parameters and
\* the checksum in that order, none skipped or repeated, and then checks
\* header and checksum; no read comes before a successful write, and each
\* stage of the round trip has exactly the steps before it behind it.
C18_StepsInCodeOrder ==
    /\ IsPrefix(CurSteps, CodeOrder)
    /\ Len(CurSteps) >= 2 => (writeFault = "Ok" /\ txResult = "Success")
    /\ pc = "Transmitting" => CurSteps = <<>>
    /\ pc = "AwaitingHeader" => CurSteps = SubSeq(CodeOrder, 1, 1)
    /\ pc = "AwaitingMeta" => CurSteps = SubSeq(CodeOrder, 1, 3)
    /\ pc = "AwaitingParameters" => CurSteps = SubSeq(CodeOrder, 1, 4)
    /\ pc = "AwaitingChecksum" => CurSteps = SubSeq(CodeOrder, 1, 5)
    /\ pc = "Validating" => CurSteps = SubSeq(CodeOrder, 1, 6)
    /\ (Returned /\ result.some) => CurSteps = CodeOrder
    /\ (Returned /\ ~result.some) => Len(CurSteps) <= 1

C18_Witness ==
    /\ Returned
    /\ result.some
    /\ CurSteps = CodeOrder

\* ----------------------------------------------------------- C19
\* C19: when the write of a round trip to an addressed device succeeds and
\* the line then holds a well-formed status packet that is read without a
\* fault, the round trip returns Success(Some(..)) with the id, length, error,
\* parameters and checksum of that packet.
C19_WellFormedIsReturned ==
    (Addressed /\ Ended /\ writeFault = "Ok" /\ readFault = "None"
        /\ WellFormed(stream)) =>
        /\ Returned
        /\ result = RxSuccessSome(
              [id |-> stream[3], length |-> stream[4], error |-> stream[5],
               params |-> SubSeq(stream, 6, Len(stream) - 1),
               checksum |-> stream[Len(stream)]])

\* ----------------------------------------------------------- C20
\* C20: a round trip returns RxFail exactly when its packet is oversize or
\* port.write failed, the same value in both cases, and nothing but
\* Success(None), Success(Some(..)) and RxFail is ever returned.
C20_OnlySuccessOrRxFail ==
    Returned =>
        /\ result.tag \in {"Success", "RxFail"}
        /\ (Oversize \/ WriteFailed) <=> result = RxResult("RxFail")
        /\ txResult \in {"TxError", "TxFail"} <=> result = RxResult("RxFail")

C20_Witness ==
    /\ Returned
    /\ writeFault = "ErrBusy"
    /\ txResult = "TxFail"
    /\ result = RxResult("RxFail")

====
